---- MODULE Spec2Model ----
(***************************************************************************)
(* A model of exportenv: the .env parser, the multi-file merge, the        *)
(* variable expansion and the output of cmd/exportenv/main.go, and the     *)
(* parser and output of the earlier single-file variant.                   *)
(*                                                                         *)
(* A Go string is a TLA+ string, read with Len, SubSeq and \o; a Go        *)
(* map[string]string is a function whose domain is a set of strings.       *)
(* Iterating a Go map visits the keys in an unspecified order: every range *)
(* loop whose result can depend on that order is a sequence of steps that  *)
(* each pick any key not visited yet.                                      *)
(***************************************************************************)
EXTENDS Integers, Sequences, FiniteSets, TLC

\* ------------------------------------------------------------------------
\* Characters
\* ------------------------------------------------------------------------

DQ == "\""
SQ == "'"
BS == "\\"
NL == "\n"
TAB == "\t"
CR == "\r"
\* The backquote character (byte 96).
BT == SubSeq("`'", 1, 1)

\* s[i] of a Go string, as a one-character string (i counts from 1).
At(s, i) == SubSeq(s, i, i)

\* The printable ASCII characters, byte 32 first.
Printable ==
  " !\"#$%&'()*+,-./0123456789:;<=>?@ABCDEFGHIJKLMNOPQRSTUVWXYZ[\\]^_"
  \o BT \o "abcdefghijklmnopqrstuvwxyz{|}~"

Chars == {At(Printable, i) : i \in 1..Len(Printable)} \cup {NL, TAB, CR}

\* The byte value of a character.
Code ==
  [c \in Chars |->
     IF c = NL THEN 10
     ELSE IF c = TAB THEN 9
     ELSE IF c = CR THEN 13
     ELSE 31 + (CHOOSE i \in 1..Len(Printable) : At(Printable, i) = c)]

IsUpper(c) == Code[c] \in 65..90
IsLower(c) == Code[c] \in 97..122
IsDigit(c) == Code[c] \in 48..57

\* unicode.IsSpace, and the regular expression class \s, on ASCII.
IsSpace(c) == c \in {" ", TAB, NL, CR}

\* ------------------------------------------------------------------------
\* Package strings, package sort, and Go maps
\* ------------------------------------------------------------------------

MinOf(S) == CHOOSE x \in S : \A y \in S : x <= y
MaxOf(S) == CHOOSE x \in S : \A y \in S : y <= x

\* s[n:] of a Go string.
Drop(s, n) == SubSeq(s, n + 1, Len(s))

HasPrefix(s, p) == Len(p) <= Len(s) /\ SubSeq(s, 1, Len(p)) = p
HasSuffix(s, p) == Len(p) <= Len(s) /\ SubSeq(s, Len(s) - Len(p) + 1, Len(s)) = p
TrimPrefix(s, p) == IF HasPrefix(s, p) THEN Drop(s, Len(p)) ELSE s
TrimSuffix(s, p) == IF HasSuffix(s, p) THEN SubSeq(s, 1, Len(s) - Len(p)) ELSE s

TrimSpace(s) ==
  LET keep == {i \in 1..Len(s) : ~IsSpace(At(s, i))}
  IN  IF keep = {} THEN "" ELSE SubSeq(s, MinOf(keep), MaxOf(keep))

\* strings.ReplaceAll for a non-empty old: leftmost first, non-overlapping.
RECURSIVE ReplaceAll(_, _, _)
ReplaceAll(s, old, new) ==
  IF s = "" THEN ""
  ELSE IF HasPrefix(s, old) THEN new \o ReplaceAll(Drop(s, Len(old)), old, new)
  ELSE At(s, 1) \o ReplaceAll(Drop(s, 1), old, new)

\* strings.SplitN(s, "=", 2): s alone when it holds no "=", else the text
\* before the first "=" and the text after it.
SplitN2(s) ==
  LET eq == {i \in 1..Len(s) : At(s, i) = "="}
  IN  IF eq = {} THEN << s >>
      ELSE << SubSeq(s, 1, MinOf(eq) - 1), Drop(s, MinOf(eq)) >>

\* The order of Go strings (byte-wise lexicographic), as sort.Strings uses it.
StrLess(a, b) ==
  LET n == IF Len(a) < Len(b) THEN Len(a) ELSE Len(b)
      d == {i \in 1..n : At(a, i) # At(b, i)}
  IN  IF d = {} THEN Len(a) < Len(b)
      ELSE Code[At(a, MinOf(d))] < Code[At(b, MinOf(d))]

\* sort.Strings on distinct strings.
RECURSIVE SortStrings(_)
SortStrings(S) ==
  IF S = {} THEN << >>
  ELSE LET m == CHOOSE x \in S : \A y \in S \ {x} : StrLess(x, y)
       IN  << m >> \o SortStrings(S \ {m})

\* v, ok := m[k] with the absent case folded in: the value, or "".
Lookup(m, k) == IF k \in DOMAIN m THEN m[k] ELSE ""

\* m[k] = v on a Go map.
Put(m, k, v) == [x \in DOMAIN m \cup {k} |-> IF x = k THEN v ELSE m[x]]

\* make(map[string]string)
EmptyMap == [x \in {} |-> ""]

\* ------------------------------------------------------------------------
\* os.Expand, as cmd/exportenv/main.go calls it
\* ------------------------------------------------------------------------

\* os.isShellSpecialVar
isShellSpecialVar(c) ==
  c \in {"*", "#", "$", "@", "!", "?", "-",
         "0", "1", "2", "3", "4", "5", "6", "7", "8", "9"}

\* os.isAlphaNum
isAlphaNum(c) == c = "_" \/ IsDigit(c) \/ IsLower(c) \/ IsUpper(c)

\* os.getShellName on the non-empty text after a "$": the name and the
\* number of bytes taken.  A name of "" with w > 0 is bad syntax.
getShellName(s) ==
  IF At(s, 1) = "{"
  THEN IF Len(s) > 2 /\ isShellSpecialVar(At(s, 2)) /\ At(s, 3) = "}"
       THEN [name |-> At(s, 2), w |-> 3]
       ELSE LET close == {i \in 2..Len(s) : At(s, i) = "}"}
            IN  IF close = {} THEN [name |-> "", w |-> 1]
                ELSE IF MinOf(close) = 2 THEN [name |-> "", w |-> 2]
                ELSE [name |-> SubSeq(s, 2, MinOf(close) - 1), w |-> MinOf(close)]
  ELSE IF isShellSpecialVar(At(s, 1))
  THEN [name |-> At(s, 1), w |-> 1]
  ELSE LET stop == {i \in 1..Len(s) : ~isAlphaNum(At(s, i))}
           n    == IF stop = {} THEN Len(s) ELSE MinOf(stop) - 1
       IN  [name |-> SubSeq(s, 1, n), w |-> n]

\* ExpandMapping, were it to leave a reference to an unknown name in place.
ExpandMappingKeepsUnknown(envVars, varName) ==
  IF varName \in DOMAIN envVars THEN envVars[varName]
  ELSE "${" \o varName \o "}"

\* The mapping function both callers pass to os.Expand: the value of the
\* name in the map, or "" when the map does not hold it.
ExpandMapping(envVars, varName) ==
  IF varName \in DOMAIN envVars THEN envVars[varName] ELSE ""

\* os.Expand(s, mapping) from byte j on.  A "$" that is the last byte is
\* copied; bad syntax is eaten; a "$" followed by no name is copied.
RECURSIVE OsExpandFrom(_, _, _)
OsExpandFrom(s, j, envVars) ==
  IF j > Len(s) THEN ""
  ELSE IF At(s, j) = "$" /\ j < Len(s)
  THEN LET sn == getShellName(Drop(s, j))
           piece == IF sn.name = "" /\ sn.w > 0 THEN ""
                    ELSE IF sn.name = "" THEN "$"
                    ELSE ExpandMapping(envVars, sn.name)
       IN  piece \o OsExpandFrom(s, j + sn.w + 1, envVars)
  ELSE At(s, j) \o OsExpandFrom(s, j + 1, envVars)

OsExpand(s, envVars) == OsExpandFrom(s, 1, envVars)

\* expandVariables of cmd/exportenv/main.go
expandVariables(val, envVars) == OsExpand(val, envVars)

\* ------------------------------------------------------------------------
\* The parser of cmd/exportenv/main.go
\* ------------------------------------------------------------------------

\* The zero rune, which no character of a line equals.
NoQuote == ""

isCommentOrEmpty(line) == line = "" \/ HasPrefix(line, "#")

\* The loop of removeInlineComment from character i on: the text written
\* to result.
RECURSIVE RemoveInlineCommentFrom(_, _, _, _)
RemoveInlineCommentFrom(val, i, inQuote, quoteChar) ==
  IF i > Len(val) THEN ""
  ELSE LET char == At(val, i)
       IN  IF (char = DQ \/ char = SQ) /\ ~inQuote
           THEN char \o RemoveInlineCommentFrom(val, i + 1, TRUE, char)
           ELSE IF char = quoteChar /\ inQuote
           THEN char \o RemoveInlineCommentFrom(val, i + 1, FALSE, quoteChar)
           ELSE IF char = "#" /\ ~inQuote
           THEN ""
           ELSE char \o RemoveInlineCommentFrom(val, i + 1, inQuote, quoteChar)

removeInlineComment(val) ==
  TrimSpace(RemoveInlineCommentFrom(val, 1, FALSE, NoQuote))

\* [A-Za-z_] and [A-Za-z0-9_] of the keyValueLine pattern.
IsKeyStart(c) == IsUpper(c) \/ IsLower(c) \/ c = "_"
IsKeyChar(c) == IsKeyStart(c) \/ IsDigit(c)

\* The number of leading characters of s that satisfy the class.
SpanSpace(s) ==
  LET stop == {i \in 1..Len(s) : ~IsSpace(At(s, i))}
  IN  IF stop = {} THEN Len(s) ELSE MinOf(stop) - 1
SpanKey(s) ==
  LET stop == {i \in 1..Len(s) : ~IsKeyChar(At(s, i))}
  IN  IF stop = {} THEN Len(s) ELSE MinOf(stop) - 1

\* keyValueLine.FindStringSubmatch: ^\s*([A-Za-z_][A-Za-z0-9_]*)\s*=\s*(.*)$
\* The three classes are disjoint, so the greedy match is the only one.
MatchKeyValueLine(line) ==
  LET s1 == Drop(line, SpanSpace(line))
      n  == SpanKey(s1)
      s2 == Drop(s1, n)
      s3 == Drop(s2, SpanSpace(s2))
      s4 == Drop(s3, 1)
  IN  IF s1 # "" /\ IsKeyStart(At(s1, 1)) /\ s3 # "" /\ At(s3, 1) = "="
      THEN [matched |-> TRUE, key |-> SubSeq(s1, 1, n),
            val |-> Drop(s4, SpanSpace(s4))]
      ELSE [matched |-> FALSE, key |-> "", val |-> ""]

\* parseLine: the key, the value, whether a multiline value starts, and the
\* quote that opened it.
parseLine(line) ==
  LET m == MatchKeyValueLine(line)
      val == removeInlineComment(m.val)
  IN  IF ~m.matched
      THEN [key |-> "", val |-> "", multiline |-> FALSE, quoteType |-> NoQuote]
      ELSE IF HasPrefix(val, DQ) \/ HasPrefix(val, SQ)
      THEN LET quoteType == At(val, 1)
               inner == TrimPrefix(val, quoteType)
           IN  IF HasSuffix(inner, quoteType)
               THEN [key |-> m.key, val |-> TrimSuffix(inner, quoteType),
                     multiline |-> FALSE, quoteType |-> NoQuote]
               ELSE [key |-> m.key, val |-> inner,
                     multiline |-> TRUE, quoteType |-> quoteType]
      ELSE [key |-> m.key, val |-> val, multiline |-> FALSE, quoteType |-> NoQuote]

\* The locals of parseEnvFile before the first line is read.
ParseStart ==
  [envVars |-> EmptyMap, key |-> "", value |-> "",
   multiline |-> FALSE, quoteType |-> NoQuote]

\* One pass of the scanner loop of parseEnvFile over the line text.
ParseStep(st, text) ==
  LET line == TrimSpace(text)
  IN  IF isCommentOrEmpty(line) THEN st
      ELSE IF st.multiline
      THEN IF HasSuffix(line, st.quoteType)
           THEN LET value == removeInlineComment(
                               st.value \o NL \o TrimSuffix(line, st.quoteType))
                IN  [st EXCEPT !.value = value,
                               !.envVars = Put(st.envVars, st.key, value),
                               !.multiline = FALSE]
           ELSE [st EXCEPT !.value = st.value \o NL \o line]
      ELSE LET p == parseLine(line)
           IN  IF p.multiline
               THEN [st EXCEPT !.key = p.key, !.value = p.val,
                               !.multiline = TRUE, !.quoteType = p.quoteType]
               ELSE LET val == IF p.quoteType = DQ
                               THEN ReplaceAll(expandVariables(p.val, st.envVars),
                                               BS \o "n", NL)
                               ELSE p.val
                    IN  [st EXCEPT !.key = p.key, !.multiline = FALSE,
                                   !.quoteType = p.quoteType,
                                   !.envVars = Put(st.envVars, p.key, val)]

\* The scanner loop of parseEnvFile over all the lines of a file.
RECURSIVE ParseLines(_, _)
ParseLines(st, lines) ==
  IF lines = << >> THEN st
  ELSE ParseLines(ParseStep(st, Head(lines)), Tail(lines))

\* The map parseEnvFile returns for a file that is read to its end.
parseEnvFile(lines) == ParseLines(ParseStart, lines).envVars

\* ------------------------------------------------------------------------
\* The merge, expansion and output functions of cmd/exportenv/main.go
\* ------------------------------------------------------------------------

existsInMap(m, key) == key \in DOMAIN m

\* ShouldSet, were loadEnvFiles to ignore its override flag.
ShouldSetAlways(override, envVars, k) == TRUE

\* The condition under which loadEnvFiles sets a variable of a file.
ShouldSet(override, envVars, k) == override \/ ~existsInMap(envVars, k)

\* The inner loop of loadEnvFiles over the variables of one file.  Each
\* pass reads and writes only its own key, so the order of the passes does
\* not show in the result.
MergeFile(envVars, fileVars, override) ==
  [k \in DOMAIN envVars \cup DOMAIN fileVars |->
     IF k \in DOMAIN fileVars /\ ShouldSet(override, envVars, k)
     THEN fileVars[k] ELSE envVars[k]]

\* parseCommandLineVars: the -v arguments in order, a later one replacing
\* an earlier one of the same key.
RECURSIVE ParseVarsFrom(_, _)
ParseVarsFrom(cmdVars, vars) ==
  IF vars = << >> THEN cmdVars
  ELSE LET parts == SplitN2(Head(vars))
           next == IF Len(parts) = 2 THEN Put(cmdVars, parts[1], parts[2])
                   ELSE Put(cmdVars, parts[1], "")
       IN  ParseVarsFrom(next, Tail(vars))

parseCommandLineVars(vars) == ParseVarsFrom(EmptyMap, vars)

\* mergeEnvVars: every command-line variable is written over envVars.
mergeEnvVars(envVars, cmdVars) ==
  [k \in DOMAIN envVars \cup DOMAIN cmdVars |->
     IF k \in DOMAIN cmdVars THEN cmdVars[k] ELSE envVars[k]]

\* One pass of the loop of expandEnvVars, for the key the range yields: the
\* mapping function reads the map as it is during this pass.
ExpandKey(envVars, key) ==
  [envVars EXCEPT ![key] = OsExpand(envVars[key], envVars)]

\* sortEnvVars: KEY=VALUE strings in ascending key order.
sortEnvVars(envVars) ==
  LET keys == SortStrings(DOMAIN envVars)
  IN  [i \in 1..Len(keys) |-> keys[i] \o "=" \o envVars[keys[i]]]

\* The line printExportableEnvVars prints for one element of the sorted
\* list.
ExportLine(v) ==
  LET parts == SplitN2(v)
      value == IF Len(parts) > 1 THEN parts[2] ELSE ""
  IN  "export " \o parts[1] \o "=" \o DQ \o ReplaceAll(value, DQ, BS \o DQ) \o DQ

printExportableEnvVars(sortedEnvVars) ==
  [i \in 1..Len(sortedEnvVars) |-> ExportLine(sortedEnvVars[i])]

\* ------------------------------------------------------------------------
\* The inputs of cmd/exportenv
\* ------------------------------------------------------------------------

\* Most --env-file flags, and most -v flags, of one invocation.
MaxFiles == 2
MaxVars == 2

\* The files of the working directory: the lines of each, and whether it
\* can be opened ("noopen": os.Open fails) and read to its end ("readerr":
\* the scanner reports an error).
FileSystem ==
  [name \in {".env", "exp.env", "sq.env", "chain.env", "junk.env",
             "missing.env", "short.env"} |->
     CASE name = ".env"        -> [status |-> "ok", lines |-> << "A=1", "B=x" >>]
       [] name = "exp.env"     -> [status |-> "ok",
                                   lines |-> << "A=foo", "B=${A}bar",
                                                "U=${UNDEFINED}x" >>]
       [] name = "sq.env"      -> [status |-> "ok", lines |-> << "K='a$b'" >>]
       [] name = "chain.env"   -> [status |-> "ok",
                                   lines |-> << "A=${B}", "B=${C}", "C=x" >>]
       [] name = "junk.env"    -> [status |-> "ok", lines |-> << "hello", "A=2" >>]
       [] name = "missing.env" -> [status |-> "noopen", lines |-> << >>]
       [] name = "short.env"   -> [status |-> "readerr", lines |-> << "A=9" >>]]

\* The -v arguments an invocation may give.
VarArgs == { "A=3", "A=4", "B" }

\* The sequences over S of at most n elements.
SeqsUpTo(S, n) == UNION {[1..m -> S] : m \in 0..n}

\* The environment the process inherits (os.Environ).
Environ == << "HOME=/root", "A=0" >>

\* ------------------------------------------------------------------------
\* State
\* ------------------------------------------------------------------------

VARIABLES
  args,           \* the parsed flags of cmd/exportenv: EnvFiles, NoExpand,
                  \* Override, Vars, Cmd (whether a command was given)
  pc,             \* where main stands
  fileIdx,        \* the index in the file list of the next file to load
  envVars,        \* the map of main
  pending,        \* the keys the range of expandEnvVars has yet to yield
  err,            \* whether loadEnvFiles returned an error
  sortedEnvVars,  \* the result of sortEnvVars
  stdout,         \* the lines printExportableEnvVars has printed
  childEnv,       \* the environment of the command, once it is run
  executed,       \* whether handleExecution has run the command
  input,          \* parser: the lines the scanner has yielded so far
  pst,            \* parser: the locals of parseEnvFile
  ppc,            \* parser: where parseEnvFile stands
  sArgs,          \* single-file variant: the flags Eval and Unset
  spc,            \* single-file variant: where main stands
  sInput,         \* single-file variant: the lines the scanner has yielded
  sEnvVars,       \* single-file variant: the map of parseEnvFile and main
  sPending,       \* single-file variant: the keys the output range has yet
                  \* to yield
  sStdout         \* single-file variant: the lines printed

pipeVars == << args, pc, fileIdx, envVars, pending, err, sortedEnvVars,
               stdout, childEnv, executed >>
parseVars == << input, pst, ppc >>
simpleVars == << sArgs, spc, sInput, sEnvVars, sPending, sStdout >>
vars == << pipeVars, parseVars, simpleVars >>

\* ------------------------------------------------------------------------
\* main of cmd/exportenv
\* ------------------------------------------------------------------------

\* The file list loadEnvFiles goes through: .env when none is given.
Files == IF Len(args.EnvFiles) = 0 THEN << ".env" >> ELSE args.EnvFiles

\* The parts of the state a specification does not run stay as they are here.
PipeIdle ==
  /\ args = [EnvFiles |-> << >>, NoExpand |-> FALSE, Override |-> FALSE,
             Vars |-> << >>, Cmd |-> FALSE]
  /\ pc = "idle"
  /\ fileIdx = 1
  /\ envVars = EmptyMap
  /\ pending = {}
  /\ err = FALSE
  /\ sortedEnvVars = << >>
  /\ stdout = << >>
  /\ childEnv = << >>
  /\ executed = FALSE

ParseIdle == input = << >> /\ pst = ParseStart /\ ppc = "idle"

SimpleIdle ==
  /\ sArgs = [Eval |-> FALSE, Unset |-> FALSE]
  /\ spc = "idle"
  /\ sInput = << >>
  /\ sEnvVars = EmptyMap
  /\ sPending = {}
  /\ sStdout = << >>

Init ==
  /\ args \in [EnvFiles : SeqsUpTo(DOMAIN FileSystem, MaxFiles),
               NoExpand : BOOLEAN,
               Override : BOOLEAN,
               Vars : SeqsUpTo(VarArgs, MaxVars),
               Cmd : BOOLEAN]
  /\ pc = "load"
  /\ fileIdx = 1
  /\ envVars = EmptyMap
  /\ pending = {}
  /\ err = FALSE
  /\ sortedEnvVars = << >>
  /\ stdout = << >>
  /\ childEnv = << >>
  /\ executed = FALSE
  /\ ParseIdle
  /\ SimpleIdle

\* LoadFile, were loadEnvFiles to skip a file it cannot read.
LoadFileSkipUnreadable ==
  /\ pc = "load"
  /\ fileIdx <= Len(Files)
  /\ LET file == FileSystem[Files[fileIdx]]
     IN  envVars' = IF file.status # "ok" THEN envVars
                    ELSE MergeFile(envVars, parseEnvFile(file.lines),
                                   args.Override)
  /\ fileIdx' = fileIdx + 1
  /\ UNCHANGED << err, pc, args, pending, sortedEnvVars, stdout, childEnv,
                  executed, parseVars, simpleVars >>

\* One pass of the loop of loadEnvFiles: the file parses and its variables
\* are merged, or it cannot be read, loadEnvFiles returns the error and
\* main logs it and returns.
LoadFile ==
  /\ pc = "load"
  /\ fileIdx <= Len(Files)
  /\ LET file == FileSystem[Files[fileIdx]]
     IN  IF file.status # "ok"
         THEN /\ err' = TRUE
              /\ pc' = "done"
              /\ envVars' = EmptyMap
              /\ UNCHANGED fileIdx
         ELSE /\ envVars' = MergeFile(envVars, parseEnvFile(file.lines),
                                      args.Override)
              /\ fileIdx' = fileIdx + 1
              /\ UNCHANGED << err, pc >>
  /\ UNCHANGED << args, pending, sortedEnvVars, stdout, childEnv, executed,
                  parseVars, simpleVars >>

\* loadEnvFiles returns the map after the last file.
LoadDone ==
  /\ pc = "load"
  /\ fileIdx > Len(Files)
  /\ pc' = "merge"
  /\ UNCHANGED << args, fileIdx, envVars, pending, err, sortedEnvVars, stdout,
                  childEnv, executed, parseVars, simpleVars >>

\* cmdVars := parseCommandLineVars(args.Vars); mergeEnvVars(envVars, cmdVars)
MergeVars ==
  /\ pc = "merge"
  /\ envVars' = mergeEnvVars(envVars, parseCommandLineVars(args.Vars))
  /\ pc' = "merged"
  /\ UNCHANGED << args, fileIdx, pending, err, sortedEnvVars, stdout, childEnv,
                  executed, parseVars, simpleVars >>

\* if !args.NoExpand: expandEnvVars starts to range over the map.
ExpandStart ==
  /\ pc = "merged"
  /\ IF args.NoExpand
     THEN pc' = "sort" /\ UNCHANGED pending
     ELSE pc' = "expand" /\ pending' = DOMAIN envVars
  /\ UNCHANGED << args, fileIdx, envVars, err, sortedEnvVars, stdout, childEnv,
                  executed, parseVars, simpleVars >>

\* One pass of the loop of expandEnvVars: the range yields any key it has
\* not yielded yet.
ExpandOne ==
  /\ pc = "expand"
  /\ \E key \in pending :
       /\ envVars' = ExpandKey(envVars, key)
       /\ pending' = pending \ {key}
  /\ UNCHANGED << args, pc, fileIdx, err, sortedEnvVars, stdout, childEnv,
                  executed, parseVars, simpleVars >>

ExpandDone ==
  /\ pc = "expand"
  /\ pending = {}
  /\ pc' = "sort"
  /\ UNCHANGED << args, fileIdx, envVars, pending, err, sortedEnvVars, stdout,
                  childEnv, executed, parseVars, simpleVars >>

\* sortedEnvVars := sortEnvVars(envVars)
Sort ==
  /\ pc = "sort"
  /\ sortedEnvVars' = sortEnvVars(envVars)
  /\ pc' = "emit"
  /\ UNCHANGED << args, fileIdx, envVars, pending, err, stdout, childEnv,
                  executed, parseVars, simpleVars >>

\* No command: printExportableEnvVars(sortedEnvVars)
PrintExports ==
  /\ pc = "emit"
  /\ ~args.Cmd
  /\ stdout' = printExportableEnvVars(sortedEnvVars)
  /\ pc' = "done"
  /\ UNCHANGED << args, fileIdx, envVars, pending, err, sortedEnvVars, childEnv,
                  executed, parseVars, simpleVars >>

\* A command: handleExecution runs it with the inherited environment
\* followed by the sorted variables.
Execute ==
  /\ pc = "emit"
  /\ args.Cmd
  /\ childEnv' = Environ \o sortedEnvVars
  /\ executed' = TRUE
  /\ pc' = "done"
  /\ UNCHANGED << args, fileIdx, envVars, pending, err, sortedEnvVars, stdout,
                  parseVars, simpleVars >>

Next ==
  \/ LoadFile
  \/ LoadDone
  \/ MergeVars
  \/ ExpandStart
  \/ ExpandOne
  \/ ExpandDone
  \/ Sort
  \/ PrintExports
  \/ Execute

Spec == Init /\ [][Next]_vars

\* ------------------------------------------------------------------------
\* Precedence of the merge (C1)
\* ------------------------------------------------------------------------

\* The variables file number i of the list defines: the map its parse gives.
FileVarsOf(i) == parseEnvFile(FileSystem[Files[i]].lines)

\* The files of the list that define key k, and the -v arguments that give it.
DefiningFiles(k) == {i \in 1..Len(Files) : k \in DOMAIN FileVarsOf(i)}
GivingVars(k) == {i \in 1..Len(args.Vars) : SplitN2(args.Vars[i])[1] = k}

\* The value -v argument number i gives: the text after its first "=", or
\* "" when it has none.
VarValueOf(i) ==
  LET parts == SplitN2(args.Vars[i])
  IN  IF Len(parts) = 2 THEN parts[2] ELSE ""

DefinedKeys ==
  UNION {DOMAIN FileVarsOf(i) : i \in 1..Len(Files)}
  \cup {SplitN2(args.Vars[i])[1] : i \in 1..Len(args.Vars)}

\* The value the precedence rule gives key k (of several -v arguments for
\* one key, the last).
PrecedenceValue(k) ==
  IF GivingVars(k) # {} THEN VarValueOf(MaxOf(GivingVars(k)))
  ELSE IF ~args.Override THEN FileVarsOf(MinOf(DefiningFiles(k)))[k]
  ELSE FileVarsOf(MaxOf(DefiningFiles(k)))[k]

\* C1: after loadEnvFiles and mergeEnvVars, the map holds exactly the keys a
\* file of the list or a -v argument defines, and each key has the -v value
\* when a -v argument gives it, else the value of the first defining file
\* without --override and of the last defining file with it.
C1_MergePrecedence ==
  pc = "merged" =>
    /\ DOMAIN envVars = DefinedKeys
    /\ \A k \in DefinedKeys : envVars[k] = PrecedenceValue(k)

\* Two files define one key differently, without --override, and a -v
\* argument gives a key that a file defines too.
C1_Witness ==
  /\ pc = "merged"
  /\ ~args.Override
  /\ \E k \in DefinedKeys :
       /\ GivingVars(k) = {}
       /\ Cardinality(DefiningFiles(k)) = 2
       /\ FileVarsOf(1)[k] # FileVarsOf(2)[k]
       /\ envVars[k] = FileVarsOf(1)[k]
  /\ \E k \in DefinedKeys :
       /\ GivingVars(k) # {}
       /\ DefiningFiles(k) # {}
       /\ envVars[k] # FileVarsOf(MinOf(DefiningFiles(k)))[k]

\* ------------------------------------------------------------------------
\* Expansion over the map (C2)
\* ------------------------------------------------------------------------

\* A variable name of the EnvMap: [A-Za-z_][A-Za-z0-9_]*
IsName(s) ==
  /\ s # ""
  /\ IsKeyStart(At(s, 1))
  /\ \A i \in 1..Len(s) : IsKeyChar(At(s, i))

\* The NAME of a reference ${NAME} that v starts with, or "" when v starts
\* with none.
RefAtHead(v) ==
  IF ~HasPrefix(v, "${") THEN ""
  ELSE LET close == {i \in 3..Len(v) : At(v, i) = "}"}
       IN  IF close = {} THEN ""
           ELSE LET name == SubSeq(v, 3, MinOf(close) - 1)
                IN  IF IsName(name) THEN name ELSE ""

\* v with each reference ${NAME} replaced, in one pass, by the value of
\* NAME in m, or by "" when m does not hold NAME.
RECURSIVE ReplaceRefs(_, _)
ReplaceRefs(v, m) ==
  IF v = "" THEN ""
  ELSE LET name == RefAtHead(v)
       IN  IF name # ""
           THEN Lookup(m, name) \o ReplaceRefs(Drop(v, Len(name) + 3), m)
           ELSE At(v, 1) \o ReplaceRefs(Drop(v, 1), m)

\* Every "$" of v starts a reference ${NAME}.
OnlyBracedRefs(v) ==
  \A i \in 1..Len(v) : At(v, i) = "$" => RefAtHead(Drop(v, i - 1)) # ""

\* C2: each pass of expandEnvVars rewrites the value of one key not yet
\* visited, replacing every ${NAME} in it by the value NAME has in the map
\* at that moment, or by "" when the map does not hold NAME, and leaves the
\* other values alone; expandEnvVars ends only when no key is left.
C2_ExpandReplacesRefs ==
  [][ /\ (pc = "expand" /\ pending' # pending) =>
           \E key \in pending :
             /\ pending' = pending \ {key}
             /\ DOMAIN envVars' = DOMAIN envVars
             /\ \A k \in DOMAIN envVars \ {key} : envVars'[k] = envVars[k]
             /\ OnlyBracedRefs(envVars[key]) =>
                  envVars'[key] = ReplaceRefs(envVars[key], envVars)
      /\ (pc = "expand" /\ pc' # "expand") => pending = {}
    ]_vars

\* A=foo, B=${A}bar, U=${UNDEFINED}x of one file, expanded.
C2_Witness ==
  /\ pc = "sort"
  /\ ~args.NoExpand
  /\ args.EnvFiles = << "exp.env" >>
  /\ args.Vars = << >>
  /\ envVars = [k \in {"A", "B", "U"} |->
                  IF k = "A" THEN "foo" ELSE IF k = "B" THEN "foobar" ELSE "x"]

\* ------------------------------------------------------------------------
\* Single-quoted values through the pipeline (C4)
\* ------------------------------------------------------------------------

\* line is KEY='V' with V free of single quotes: its KEY and its V.
IsSingleQuotedLine(line) ==
  LET parts == SplitN2(line)
  IN  /\ Len(parts) = 2
      /\ IsName(parts[1])
      /\ Len(parts[2]) >= 2
      /\ At(parts[2], 1) = SQ
      /\ At(parts[2], Len(parts[2])) = SQ
      /\ \A i \in 2..(Len(parts[2]) - 1) : At(parts[2], i) # SQ
LineKey(line) == SplitN2(line)[1]
QuotedText(line) ==
  LET v == SplitN2(line)[2] IN SubSeq(v, 2, Len(v) - 1)

\* C4: for one env file, no -v argument and expansion left enabled, every
\* line KEY='V' of the file (V free of single quotes, KEY not assigned by a
\* later line) gives KEY the value V in the map of the parser and in the
\* sorted list handed to the output.
C4_SingleQuotedLiteral ==
  (pc = "emit" /\ ~args.NoExpand /\ Len(Files) = 1 /\ args.Vars = << >>) =>
    LET lines == FileSystem[Files[1]].lines
    IN  \A i \in 1..Len(lines) :
          (/\ IsSingleQuotedLine(lines[i])
           /\ \A j \in (i + 1)..Len(lines) :
                ~HasPrefix(lines[j], LineKey(lines[i]) \o "="))
          => /\ parseEnvFile(lines)[LineKey(lines[i])] = QuotedText(lines[i])
             /\ \E n \in 1..Len(sortedEnvVars) :
                  sortedEnvVars[n] =
                    LineKey(lines[i]) \o "=" \o QuotedText(lines[i])

\* ------------------------------------------------------------------------
\* Unreadable files (C8)
\* ------------------------------------------------------------------------

SomeFileUnreadable ==
  \E i \in 1..Len(Files) : FileSystem[Files[i]].status # "ok"

\* C8: when a file of the list cannot be opened or read, no export line is
\* ever printed and no command is ever run, main never gets past
\* loadEnvFiles, and it ends with the error.
C8_NoOutputOnUnreadableFile ==
  SomeFileUnreadable =>
    /\ stdout = << >>
    /\ ~executed
    /\ childEnv = << >>
    /\ pc \in {"load", "done"}
    /\ pc = "done" => err

\* main has returned on the error of the second file, after the first one
\* parsed, with -v arguments given.
C8_Witness ==
  /\ pc = "done"
  /\ err
  /\ fileIdx = 2
  /\ FileSystem[Files[1]].lines # << >>
  /\ args.Vars # << >>
  /\ stdout = << >>
  /\ ~executed

\* ------------------------------------------------------------------------
\* Determinism of the output (C10)
\* ------------------------------------------------------------------------

\* loadEnvFiles over the whole list, every file readable.
RECURSIVE LoadFrom(_, _, _)
LoadFrom(m, files, override) ==
  IF files = << >> THEN m
  ELSE LoadFrom(MergeFile(m, parseEnvFile(FileSystem[Head(files)].lines), override),
                Tail(files), override)

\* expandEnvVars when the range yields the keys in the order given.
RECURSIVE ExpandInOrder(_, _)
ExpandInOrder(m, keys) ==
  IF keys = << >> THEN m
  ELSE ExpandInOrder(ExpandKey(m, Head(keys)), Tail(keys))

\* The sorted list of the run in which every range yields the keys in
\* ascending order.
AscendingRunSorted ==
  LET merged == mergeEnvVars(LoadFrom(EmptyMap, Files, args.Override),
                             parseCommandLineVars(args.Vars))
      expanded == IF args.NoExpand THEN merged
                  ELSE ExpandInOrder(merged, SortStrings(DOMAIN merged))
  IN  sortEnvVars(expanded)

\* C10: every run on the same inputs ends with the output of the run that
\* ranges in ascending key order: the same export lines, the same
\* environment of the command.
C10_OutputDeterministic ==
  (pc = "done" /\ ~err) =>
    /\ ~args.Cmd => stdout = printExportableEnvVars(AscendingRunSorted)
    /\ args.Cmd => childEnv = Environ \o AscendingRunSorted

\* ------------------------------------------------------------------------
\* parseEnvFile of cmd/exportenv/main.go, line by line
\* ------------------------------------------------------------------------

\* Most lines of a file.
MaxLines == 3

\* The lines a file may hold.
ParseCatalog ==
  { "A=foo",
    "B=\"${A}bar\"",
    "K='a$b'",
    "D=\"a\\nb\"",
    "E=\"a\\\"b\"",
    "F=v # c",
    "hello",
    "M=\"L1",
    "L2\"",
    "mid",
    "  x#y",
    "",
    "# c" }

ParseInit ==
  /\ input = << >>
  /\ pst = ParseStart
  /\ ppc = "open"
  /\ PipeIdle
  /\ SimpleIdle

\* os.Open succeeds.
OpenFile ==
  /\ ppc = "open"
  /\ ppc' = "scan"
  /\ UNCHANGED << input, pst, pipeVars, simpleVars >>

\* os.Open fails: parseEnvFile returns the error.
OpenFails ==
  /\ ppc = "open"
  /\ ppc' = "error"
  /\ UNCHANGED << input, pst, pipeVars, simpleVars >>

\* scanner.Scan yields a line and the loop body runs on it.
ScanLine ==
  /\ ppc = "scan"
  /\ Len(input) < MaxLines
  /\ \E text \in ParseCatalog :
       /\ input' = Append(input, text)
       /\ pst' = ParseStep(pst, text)
  /\ UNCHANGED << ppc, pipeVars, simpleVars >>

\* scanner.Scan reports the end of the file: parseEnvFile returns envVars.
ScanEnd ==
  /\ ppc = "scan"
  /\ ppc' = "done"
  /\ UNCHANGED << input, pst, pipeVars, simpleVars >>

\* scanner.Scan stops on a read error: parseEnvFile returns the error.
ScanFails ==
  /\ ppc = "scan"
  /\ ppc' = "error"
  /\ UNCHANGED << input, pst, pipeVars, simpleVars >>

ParseNext ==
  \/ OpenFile
  \/ OpenFails
  \/ ScanLine
  \/ ScanEnd
  \/ ScanFails

ParseSpec == ParseInit /\ [][ParseNext]_vars

\* The lines but the last, the last line, and the locals of parseEnvFile
\* before the last line was read.
Front(s) == SubSeq(s, 1, Len(s) - 1)
LastLine == input[Len(input)]
BeforeLast == ParseLines(ParseStart, Front(input))

\* The lines without line number i.
Without(s, i) == SubSeq(s, 1, i - 1) \o SubSeq(s, i + 1, Len(s))

\* ------------------------------------------------------------------------
\* Malformed lines (C3)
\* ------------------------------------------------------------------------

\* Line i is not blank, not a comment, is read while no multiline value is
\* open, and does not match KEY\s*=\s*VALUE.
IsMalformedAt(i) ==
  /\ ~isCommentOrEmpty(TrimSpace(input[i]))
  /\ ~ParseLines(ParseStart, SubSeq(input, 1, i - 1)).multiline
  /\ ~MatchKeyValueLine(TrimSpace(input[i])).matched

\* C3: a file with a malformed line parses without error to the map the
\* file without that line parses to.
C3_MalformedLineIgnored ==
  ppc = "done" =>
    \A i \in 1..Len(input) :
      IsMalformedAt(i) => pst.envVars = parseEnvFile(Without(input, i))

\* ------------------------------------------------------------------------
\* Double-quoted values on one line (C5)
\* ------------------------------------------------------------------------

\* line is KEY=qVq for the quote character q, V free of q.
IsQuotedLine(line, q) ==
  LET parts == SplitN2(line)
  IN  /\ Len(parts) = 2
      /\ IsName(parts[1])
      /\ Len(parts[2]) >= 2
      /\ At(parts[2], 1) = q
      /\ At(parts[2], Len(parts[2])) = q
      /\ \A i \in 2..(Len(parts[2]) - 1) : At(parts[2], i) # q

\* C5: once a line KEY="V" is read while no multiline value is open, KEY
\* has the value V with its ${NAME} references replaced by the values
\* parsed so far and then every backslash-n replaced by a newline.
C5_DoubleQuotedExpanded ==
  (ppc = "scan" /\ input # << >>) =>
    ((~BeforeLast.multiline /\ IsQuotedLine(LastLine, DQ)) =>
       /\ LineKey(LastLine) \in DOMAIN pst.envVars
       /\ pst.envVars[LineKey(LastLine)] =
            ReplaceAll(ReplaceRefs(QuotedText(LastLine), BeforeLast.envVars),
                       BS \o "n", NL))

\* ------------------------------------------------------------------------
\* Escaped quotes (C6)
\* ------------------------------------------------------------------------

\* line is KEY=q...q for the quote character q: the value starts with q
\* and ends with q, on one line.
IsEnclosedLine(line, q) ==
  LET parts == SplitN2(line)
  IN  /\ Len(parts) = 2
      /\ IsName(parts[1])
      /\ Len(parts[2]) >= 2
      /\ At(parts[2], 1) = q
      /\ At(parts[2], Len(parts[2])) = q
      /\ \A i \in 1..Len(parts[2]) : At(parts[2], i) # "#"

\* C6: once a line whose value starts and ends with the same quote is read
\* while no multiline value is open, its key has the text between the two
\* quotes with every backslash-quote replaced by the quote.
C6_EscapedQuoteUnescaped ==
  (ppc = "scan" /\ input # << >>) =>
    \A q \in {DQ, SQ} :
      (~BeforeLast.multiline /\ IsEnclosedLine(LastLine, q)) =>
        /\ LineKey(LastLine) \in DOMAIN pst.envVars
        /\ pst.envVars[LineKey(LastLine)] =
             ReplaceAll(QuotedText(LastLine), BS \o q, q)

\* ------------------------------------------------------------------------
\* Multiline values (C7)
\* ------------------------------------------------------------------------

\* line is KEY=qTEXT with TEXT free of quotes and of "#": a value that its
\* line leaves open.
OpensMultiline(line, q) ==
  LET parts == SplitN2(line)
  IN  /\ Len(parts) = 2
      /\ IsName(parts[1])
      /\ Len(parts[2]) >= 1
      /\ At(parts[2], 1) = q
      /\ \A i \in 2..Len(parts[2]) : At(parts[2], i) \notin {DQ, SQ, "#"}

\* The strings of a sequence joined by newlines.
RECURSIVE JoinLines(_)
JoinLines(ss) ==
  IF ss = << >> THEN ""
  ELSE IF Len(ss) = 1 THEN ss[1]
  ELSE ss[1] \o NL \o JoinLines(Tail(ss))

\* C7: when the first line opens a value with a quote and the line just
\* read is the first later line that ends with that quote, the key has the
\* text after the opening quote, the lines in between and the closing line
\* without its quote, joined by newlines and otherwise unchanged.
C7_MultilineVerbatim ==
  (ppc = "scan" /\ Len(input) >= 2) =>
    \A q \in {DQ, SQ} :
      (/\ OpensMultiline(input[1], q)
       /\ \A i \in 2..(Len(input) - 1) : ~HasSuffix(input[i], q)
       /\ HasSuffix(LastLine, q))
      => /\ LineKey(input[1]) \in DOMAIN pst.envVars
         /\ pst.envVars[LineKey(input[1])] =
              JoinLines(<< Drop(SplitN2(input[1])[2], 1) >>
                        \o SubSeq(input, 2, Len(input) - 1)
                        \o << TrimSuffix(LastLine, q) >>)

\* ------------------------------------------------------------------------
\* The single-file variant: parser
\* ------------------------------------------------------------------------

\* envLinePattern.FindStringSubmatch: ^\s*([^#=]+)\s*=\s*(.*?)(\s*#.*)?$
\* The first group runs to the first "#" or "=", which must be an "=" with
\* a character before it; the second group is the shortest text after which
\* only spaces and a "#" comment, or nothing, follow.  The groups are given
\* trimmed, as parseEnvFile trims them.
MatchEnvLine(line) ==
  LET stop == {i \in 1..Len(line) : At(line, i) \in {"#", "="}}
  IN  IF stop = {} \/ MinOf(stop) = 1 \/ At(line, MinOf(stop)) # "="
      THEN [matched |-> FALSE, key |-> "", val |-> ""]
      ELSE LET rest == Drop(line, MinOf(stop))
               body == Drop(rest, SpanSpace(rest))
               hash == {i \in 1..Len(body) : At(body, i) = "#"}
               val  == IF hash = {} THEN body
                       ELSE SubSeq(body, 1, MinOf(hash) - 1)
           IN  [matched |-> TRUE,
                key |-> TrimSpace(SubSeq(line, 1, MinOf(stop) - 1)),
                val |-> TrimSpace(val)]

\* Whether value is wrapped in one of the three quote characters, as the
\* condition of cleanValue reads its first and last byte.
IsWrapped(value) ==
  \E q \in {DQ, SQ, BT} : At(value, 1) = q /\ At(value, Len(value)) = q

\* cleanValue panics on value[1 : len(value)-1] when the trimmed value is
\* one quote character: the slice bounds are 1 and 0.
CleanValuePanics(value) ==
  LET v == TrimSpace(value)
  IN  Len(v) = 1 /\ IsWrapped(v)

\* cleanValue, when it returns.
cleanValue(value) ==
  LET v == TrimSpace(value)
      inner == IF Len(v) > 0 /\ IsWrapped(v) THEN SubSeq(v, 2, Len(v) - 1) ELSE v
  IN  ReplaceAll(ReplaceAll(ReplaceAll(TrimSpace(inner), BS \o DQ, DQ),
                            BS \o SQ, SQ),
                 BS \o BT, BT)

\* ------------------------------------------------------------------------
\* The single-file variant: main
\* ------------------------------------------------------------------------

\* Most lines of the file.
MaxSimpleLines == 3

\* The lines the file may hold.
SimpleCatalog ==
  { "B=1",
    "A='x y'",
    "C=" \o BT \o "t" \o BT,
    "E=\"a\\\"b\"",
    "A=2 # c",
    "Q=\"",
    "bad line",
    "# c" }

SimpleInit ==
  /\ sArgs \in [Eval : BOOLEAN, Unset : BOOLEAN]
  /\ spc = "open"
  /\ sInput = << >>
  /\ sEnvVars = EmptyMap
  /\ sPending = {}
  /\ sStdout = << >>
  /\ PipeIdle
  /\ ParseIdle

\* os.Open succeeds.
SimpleOpen ==
  /\ spc = "open"
  /\ spc' = "scan"
  /\ UNCHANGED << sArgs, sInput, sEnvVars, sPending, sStdout, pipeVars, parseVars >>

\* os.Open fails: main logs the error and returns.
SimpleOpenFails ==
  /\ spc = "open"
  /\ spc' = "error"
  /\ UNCHANGED << sArgs, sInput, sEnvVars, sPending, sStdout, pipeVars, parseVars >>

\* One pass of the scanner loop of parseEnvFile; a panic of cleanValue
\* ends the process.
SimpleScanLine ==
  /\ spc = "scan"
  /\ Len(sInput) < MaxSimpleLines
  /\ \E text \in SimpleCatalog :
       LET line == TrimSpace(text)
           m == MatchEnvLine(line)
       IN  /\ sInput' = Append(sInput, text)
           /\ IF line = "" \/ HasPrefix(line, "#") \/ ~m.matched
              THEN UNCHANGED << sEnvVars, spc >>
              ELSE IF CleanValuePanics(m.val)
              THEN spc' = "panic" /\ UNCHANGED sEnvVars
              ELSE /\ sEnvVars' = Put(sEnvVars, m.key, cleanValue(m.val))
                   /\ UNCHANGED spc
  /\ UNCHANGED << sArgs, sPending, sStdout, pipeVars, parseVars >>

\* The scanner stops on a read error: main logs the error and returns.
SimpleScanFails ==
  /\ spc = "scan"
  /\ spc' = "error"
  /\ UNCHANGED << sArgs, sInput, sEnvVars, sPending, sStdout, pipeVars, parseVars >>

\* The end of the file: parseEnvFile returns and main starts the range of
\* its mode; displayEnvVars prints its heading first.
SimpleScanEnd ==
  /\ spc = "scan"
  /\ spc' = "emit"
  /\ sPending' = DOMAIN sEnvVars
  /\ sStdout' = IF sArgs.Eval THEN << "Evaluated environment variables:" >>
                ELSE << >>
  /\ UNCHANGED << sArgs, sInput, sEnvVars, pipeVars, parseVars >>

\* The line the mode prints for a key: Eval is tested before Unset.
SimpleLine(key) ==
  IF sArgs.Eval THEN key \o "=" \o sEnvVars[key]
  ELSE IF sArgs.Unset THEN "unset " \o key
  ELSE "export " \o key \o "=" \o sEnvVars[key]

\* One pass of the range over the map: it yields any key not yielded yet.
SimpleEmitOne ==
  /\ spc = "emit"
  /\ \E key \in sPending :
       /\ sStdout' = Append(sStdout, SimpleLine(key))
       /\ sPending' = sPending \ {key}
  /\ UNCHANGED << sArgs, spc, sInput, sEnvVars, pipeVars, parseVars >>

SimpleEmitDone ==
  /\ spc = "emit"
  /\ sPending = {}
  /\ spc' = "done"
  /\ UNCHANGED << sArgs, sInput, sEnvVars, sPending, sStdout, pipeVars, parseVars >>

SimpleNext ==
  \/ SimpleOpen
  \/ SimpleOpenFails
  \/ SimpleScanLine
  \/ SimpleScanFails
  \/ SimpleScanEnd
  \/ SimpleEmitOne
  \/ SimpleEmitDone

SimpleSpec == SimpleInit /\ [][SimpleNext]_vars

\* ------------------------------------------------------------------------
\* Unset mode (C9)
\* ------------------------------------------------------------------------

\* C9: unset mode ends having printed one line "unset KEY" for each key of
\* the map, and nothing else, in ascending key order.
C9_UnsetSorted ==
  (spc = "done" /\ sArgs.Unset /\ ~sArgs.Eval) =>
    LET keys == SortStrings(DOMAIN sEnvVars)
    IN  sStdout = [i \in 1..Len(keys) |-> "unset " \o keys[i]]

\* ------------------------------------------------------------------------
\* Totality of cleanValue (C11)
\* ------------------------------------------------------------------------

\* C11: parseEnvFile of the single-file variant never ends in a runtime
\* panic: cleanValue returns a string for the value of every line read,
\* a value of one quote character included.
C11_CleanValueTotal ==
  /\ spc # "panic"
  /\ \A i \in 1..Len(sInput) :
       LET m == MatchEnvLine(TrimSpace(sInput[i]))
       IN  m.matched => ~CleanValuePanics(m.val)

====
